---- MODULE Spec2Model ----
(***************************************************************************)
(* The lifecycle manager of one HTTP listener                              *)
(* (pkg/object/httpserver/runtime.go): the runtime object r, its event     *)
(* channel, the event loop fsm(), the watchdog checkFailed(), the serve     *)
(* goroutines launched by startServer(), and the callers of Close(),       *)
(* Status() and reload.                                                    *)
(***************************************************************************)
EXTENDS Integers, Sequences, FiniteSets, TLC

(* ------------------------------ bounds -------------------------------- *)

\* Listen succeeds at most MaxStartNum times (r.startNum is a uint64).
MaxStartNum == 2
\* The supervisor sends at most MaxReloads reload events.
MaxReloads == 2
\* Capacity of r.eventChan: make(chan interface{}, 10).
EventChanCap == 10

(* ----------------------------- constants ------------------------------ *)

stateNil == "nil"
stateFailed == "failed"
stateRunning == "running"
stateClosed == "closed"

\* errNil = fmt.Errorf(""): the error whose text is empty.
errNil == ""
\* The error of a failed gnet.Listen, and the error a serve loop ends with.
errBind == "bind"
errServe == "serve"

\* (*Spec)(nil)
NilSpec == [Nil |-> TRUE]

\* The configuration the supervisor starts with, and one variation of each
\* field the runtime reads.
BaseSpec ==
    [Name |-> "hs", Port |-> 8080, HTTPS |-> FALSE, KeepAlive |-> TRUE,
     KeepAliveTimeout |-> "60s", MaxConnections |-> 100, Rules |-> "R1"]

Specs ==
    { BaseSpec,
      [BaseSpec EXCEPT !.Rules = "R2"],
      [BaseSpec EXCEPT !.Port = 9090],
      [BaseSpec EXCEPT !.HTTPS = TRUE],
      [BaseSpec EXCEPT !.KeepAlive = FALSE],
      [BaseSpec EXCEPT !.MaxConnections = 200] }

\* defaultKeepAliveTimeout = 60 * time.Second, in seconds
defaultKeepAliveTimeout == 60

\* The server objects and listeners: the one made by the n-th successful
\* start is n; a nil *http.Server is 0.
NoServer == 0

(* ------------------------------ events -------------------------------- *)

eventCheckFailed == [type |-> "eventCheckFailed"]
eventServeFailed(n, e) == [type |-> "eventServeFailed", startNum |-> n, err |-> e]
eventReload(s) == [type |-> "eventReload", nextSpec |-> s]
eventClose == [type |-> "eventClose"]
eventStart == [type |-> "eventStart"]
\* A value sent on r.eventChan that is none of the loop's event types.
eventUnknown == [type |-> "unknown"]

(* ------------------------------- state -------------------------------- *)

VARIABLES
    spec,        \* r.spec
    server,      \* r.server
    mux,         \* the rules the dispatcher r.mux routes by
    startNum,    \* r.startNum
    eventChan,   \* r.eventChan
    state,       \* r.state
    err,         \* r.err
    fsm,         \* the event loop: where it is, and what its handler still has to do
    handled,     \* the last event the loop received, and the calls its handler made
    listeners,   \* the listeners that are open
    shutdowns,   \* the servers Shutdown was called on
    serve,       \* the serve goroutines, by the startNum they captured
    watchdog,    \* the checkFailed goroutine
    closer,      \* the caller of Close(): where it is, and whether its send found the channel full
    done,        \* eventClose.done is closed
    reloads,     \* the reload events sent so far
    status,      \* the caller of Status()
    idleTimeout  \* the IdleTimeout of the servers made so far, in seconds

vars ==
    << spec, server, mux, startNum, eventChan, state, err, fsm, handled,
       listeners, shutdowns, serve, watchdog, closer, done, reloads, status,
       idleTimeout >>

Idle == [pc |-> "idle", err |-> errNil, go |-> FALSE]

NoStatus == [pc |-> "idle", State |-> stateNil, Error |-> errNil, returned |-> FALSE,
             sawClosed |-> FALSE, regressed |-> FALSE]

\* newRuntime
Init ==
    /\ spec = NilSpec
    /\ server = NoServer
    /\ mux = "none"
    /\ startNum = 0
    /\ eventChan = << >>
    /\ state = stateNil
    /\ err = errNil
    /\ fsm = Idle
    /\ handled = [event |-> [type |-> "none"], calls |-> << >>]
    /\ listeners = {}
    /\ shutdowns = {}
    /\ serve = [n \in 1..MaxStartNum |-> [pc |-> "none", server |-> NoServer]]
    /\ watchdog = "tick"
    /\ closer = [pc |-> "none", parked |-> FALSE]
    /\ done = FALSE
    /\ reloads = 0
    /\ status = NoStatus
    /\ idleTimeout = [n \in 1..MaxStartNum |-> 0]

(* ------------------- the event loop's handlers ------------------------ *)

\* The handlers below are written on a record x of what the event loop
\* owns, so that a handler that calls closeServer and then startServer is
\* their composition. x.next is what the loop does after the step: wait for
\* the next event, finish the handler (r.setError, go func), or stop.
Cur ==
    [spec |-> spec, server |-> server, mux |-> mux, startNum |-> startNum,
     state |-> state, calls |-> << >>,
     listeners |-> listeners, shutdowns |-> shutdowns, done |-> done,
     idleTimeout |-> idleTimeout, next |-> Idle, panic |-> FALSE]

\* The listeners a server tracks: those its Serve calls are accepting on.
Tracked(s) == { n \in 1..MaxStartNum : serve[n].pc = "serving" /\ serve[n].server = s }

\* The outcomes of gnet.Listen: the bind succeeds or fails.
ListenOutcomes == IF startNum < MaxStartNum THEN BOOLEAN ELSE {FALSE}

\* The outcomes of r.server.Shutdown(ctx): nil, or an error (the drain timed out).
ShutdownOutcomes == BOOLEAN

\* needRestartServer without x.Rules, y.Rules = nil, nil.
needRestartServerWithRules(x, nextSpec) == x.spec # nextSpec

\* needRestartServer comparing the address alone.
needRestartServerPortOnly(x, nextSpec) == x.spec.Port # nextSpec.Port

needRestartServer(x, nextSpec) ==
    [x.spec EXCEPT !.Rules = "nil"] # [nextSpec EXCEPT !.Rules = "nil"]

\* time.ParseDuration on the strings the supervisor writes: a decimal number
\* with a unit is a duration (here in seconds), anything else is an error.
ParseDuration(s) ==
    CASE s = "60s" -> [ok |-> TRUE, d |-> 60]
      [] s = "30s" -> [ok |-> TRUE, d |-> 30]
      [] s = "2m" -> [ok |-> TRUE, d |-> 120]
      [] OTHER -> [ok |-> FALSE, d |-> 0]

\* startServer taking the parsed value whether or not the parse failed.
keepAliveTimeoutUnchecked(s) ==
    IF s.KeepAliveTimeout # ""
    THEN ParseDuration(s.KeepAliveTimeout).d
    ELSE defaultKeepAliveTimeout

\* The keepAliveTimeout startServer computes: the default, unless
\* r.spec.KeepAliveTimeout is set and parses.
keepAliveTimeout(s) ==
    IF s.KeepAliveTimeout # "" /\ ParseDuration(s.KeepAliveTimeout).ok
    THEN ParseDuration(s.KeepAliveTimeout).d
    ELSE defaultKeepAliveTimeout

\* startServer returning on a failed bind without r.setError(err).
startServerDropsBindError(x, ok) ==
    IF x.panic THEN x
    ELSE IF x.spec = NilSpec THEN [x EXCEPT !.panic = TRUE]
    ELSE LET y == [x EXCEPT !.calls = Append(@, "Listen")]
         IN  IF ~ok
             THEN [y EXCEPT !.state = stateFailed]
             ELSE [y EXCEPT !.listeners = @ \cup {x.startNum + 1},
                            !.idleTimeout[x.startNum + 1] = keepAliveTimeout(x.spec),
                            !.server = x.startNum + 1,
                            !.startNum = @ + 1,
                            !.state = stateRunning,
                            !.next = [pc |-> "setError", err |-> errNil, go |-> TRUE]]

\* startServer with r.startNum++ ahead of gnet.Listen: attempts are counted.
startServerCountsAttempts(x, ok) ==
    IF x.panic THEN x
    ELSE IF x.spec = NilSpec THEN [x EXCEPT !.panic = TRUE]
    ELSE LET y == [x EXCEPT !.calls = Append(@, "Listen"), !.startNum = @ + 1]
         IN  IF ~ok
             THEN [y EXCEPT !.state = stateFailed,
                            !.next = [pc |-> "setError", err |-> errBind, go |-> FALSE]]
             ELSE [y EXCEPT !.listeners = @ \cup {x.startNum + 1},
                            !.idleTimeout[x.startNum + 1] = keepAliveTimeout(x.spec),
                            !.server = x.startNum + 1,
                            !.state = stateRunning,
                            !.next = [pc |-> "setError", err |-> errNil, go |-> TRUE]]

\* startServer up to r.setState; r.setError and the go statement follow in
\* the loop's next step (x.next).
startServer(x, ok) ==
    IF x.panic THEN x
    ELSE IF x.spec = NilSpec THEN [x EXCEPT !.panic = TRUE]
    ELSE LET y == [x EXCEPT !.calls = Append(@, "Listen")]
         IN  IF ~ok
             THEN [y EXCEPT !.state = stateFailed,
                            !.next = [pc |-> "setError", err |-> errBind, go |-> FALSE]]
             ELSE [y EXCEPT !.listeners = @ \cup {x.startNum + 1},
                            !.idleTimeout[x.startNum + 1] = keepAliveTimeout(x.spec),
                            !.server = x.startNum + 1,
                            !.startNum = @ + 1,
                            !.state = stateRunning,
                            !.next = [pc |-> "setError", err |-> errNil, go |-> TRUE]]

closeServer(x, shutdownErr) ==
    IF x.panic \/ x.server = NoServer THEN x
    ELSE LET y == [x EXCEPT !.calls = Append(@, "Shutdown"),
                            !.shutdowns = @ \cup {x.server},
                            !.listeners = @ \ Tracked(x.server)]
         IN  \* logger.Warnf(..., r.spec.Name, err)
             IF shutdownErr /\ x.spec = NilSpec THEN [y EXCEPT !.panic = TRUE] ELSE y

reloadRules(x, nextSpec) ==
    [x EXCEPT !.calls = Append(@, "reloadRules"), !.mux = nextSpec.Rules]

reload(x, nextSpec, ok, shutdownErr) ==
    LET y == IF nextSpec # NilSpec THEN reloadRules(x, nextSpec) ELSE x
    IN  CASE y.spec = NilSpec /\ nextSpec = NilSpec -> y
          [] y.spec = NilSpec /\ nextSpec # NilSpec ->
                startServer([y EXCEPT !.spec = nextSpec], ok)
          [] y.spec # NilSpec /\ nextSpec = NilSpec ->
                closeServer([y EXCEPT !.spec = NilSpec], shutdownErr)
          [] y.spec # NilSpec /\ nextSpec # NilSpec ->
                IF needRestartServer(y, nextSpec)
                THEN startServer(closeServer([y EXCEPT !.spec = nextSpec], shutdownErr), ok)
                ELSE [y EXCEPT !.spec = nextSpec]

\* handleEventCheckFailed testing for the wrong state.
checkFailedRetriesWhenClosed(x) == x.state = stateClosed

checkFailedRetries(x) == x.state = stateFailed

\* handleEventServeFailed with the comparison turned around.
serveFailedIsStaleInverted(x, e) == x.startNum < e.startNum

serveFailedIsStale(x, e) == x.startNum > e.startNum

\* handleEventServeFailed storing stateClosed for stateFailed.
serveFailedCloses(x, e) ==
    IF serveFailedIsStale(x, e) THEN x
    ELSE [x EXCEPT !.state = stateClosed,
                   !.next = [pc |-> "setError", err |-> e.err, go |-> FALSE]]

\* handleEventServeFailed without r.setError(e.err).
serveFailedDropsError(x, e) ==
    IF serveFailedIsStale(x, e) THEN x
    ELSE [x EXCEPT !.state = stateFailed]

\* handleEventServeFailed up to r.setState; r.setError follows.
serveFailed(x, e) ==
    IF serveFailedIsStale(x, e) THEN x
    ELSE [x EXCEPT !.state = stateFailed,
                   !.next = [pc |-> "setError", err |-> e.err, go |-> FALSE]]

\* handleEventClose without the return from fsm() after it.
closeRuntimeKeepsLooping(x, shutdownErr) ==
    LET y == closeServer(x, shutdownErr)
    IN  IF y.panic THEN y ELSE [y EXCEPT !.done = TRUE]

\* handleEventClose without close(e.done).
closeRuntimeNoAck(x, shutdownErr) ==
    LET y == closeServer(x, shutdownErr)
    IN  IF y.panic THEN y
        ELSE [y EXCEPT !.next = [pc |-> "exited", err |-> errNil, go |-> FALSE]]

\* handleEventClose, and the return from fsm() that follows it.
closeRuntime(x, shutdownErr) ==
    LET y == closeServer(x, shutdownErr)
    IN  IF y.panic THEN y
        ELSE [y EXCEPT !.done = TRUE, !.next = [pc |-> "exited", err |-> errNil, go |-> FALSE]]

(* ----------------------------- the event loop ------------------------- *)

Alive == fsm.pc # "panicked"

Room == Len(eventChan) < EventChanCap

\* for e := range r.eventChan, when the event is of type t
Receives(t) ==
    /\ Alive
    /\ fsm.pc = "idle"
    /\ eventChan # << >>
    /\ Head(eventChan).type = t

\* The loop's step from the state x its handler computed.
Handled(x) ==
    /\ eventChan' = Tail(eventChan)
    /\ spec' = x.spec
    /\ server' = x.server
    /\ mux' = x.mux
    /\ startNum' = x.startNum
    /\ state' = x.state
    /\ handled' = [event |-> Head(eventChan), calls |-> x.calls]
    /\ listeners' = x.listeners
    /\ shutdowns' = x.shutdowns
    /\ done' = x.done
    /\ idleTimeout' = x.idleTimeout
    /\ fsm' = IF x.panic THEN [pc |-> "panicked", err |-> errNil, go |-> FALSE] ELSE x.next
    /\ UNCHANGED << err, serve, watchdog, closer, reloads, status >>

handleEventCheckFailed ==
    /\ Receives("eventCheckFailed")
    /\ \E ok \in ListenOutcomes :
          Handled(IF checkFailedRetries(Cur) THEN startServer(Cur, ok) ELSE Cur)

handleEventServeFailed ==
    /\ Receives("eventServeFailed")
    /\ Handled(serveFailed(Cur, Head(eventChan)))

handleEventReload ==
    /\ Receives("eventReload")
    /\ \E ok \in ListenOutcomes, shutdownErr \in ShutdownOutcomes :
          Handled(reload(Cur, Head(eventChan).nextSpec, ok, shutdownErr))

handleEventClose ==
    /\ Receives("eventClose")
    /\ \E shutdownErr \in ShutdownOutcomes :
          Handled(closeRuntime(Cur, shutdownErr))

handleEventStart ==
    /\ Receives("eventStart")
    /\ \E ok \in ListenOutcomes : Handled(startServer(Cur, ok))

\* default: logger.Errorf("BUG: unknown event: %T\n", e)
handleUnknown ==
    /\ Receives("unknown")
    /\ Handled(Cur)

\* The rest of startServer and of handleEventServeFailed: r.setError, and
\* after a successful bind the go statement, which captures r.startNum.
setError ==
    /\ Alive
    /\ fsm.pc = "setError"
    /\ err' = fsm.err
    /\ serve' = IF fsm.go
                THEN [serve EXCEPT ![startNum] = [pc |-> "spawned", server |-> NoServer]]
                ELSE serve
    /\ fsm' = Idle
    /\ UNCHANGED << spec, server, mux, startNum, eventChan, state, handled,
                    listeners, shutdowns, watchdog, closer, done, reloads, status,
                    idleTimeout >>

(* -------------------------- the serve goroutines ---------------------- *)

\* The goroutine reads r.server when it runs, not when it is launched: it
\* finds the server of its own start or one a later start has stored. Serve
\* on a server that was shut down returns ErrServerClosed and closes the
\* listener it was given.
serveBegin(n) ==
    /\ Alive
    /\ serve[n].pc = "spawned"
    /\ \E s \in n..server :
          IF s \in shutdowns
          THEN /\ serve' = [serve EXCEPT ![n] = [pc |-> "done", server |-> s]]
               /\ listeners' = listeners \ {n}
          ELSE /\ serve' = [serve EXCEPT ![n] = [pc |-> "serving", server |-> s]]
               /\ UNCHANGED listeners
    /\ UNCHANGED << spec, server, mux, startNum, eventChan, state, err, fsm, handled,
                    shutdowns, watchdog, closer, done, reloads, status,
                    idleTimeout >>

\* The accept loop ends with an error other than ErrServerClosed.
serveFails(n) ==
    /\ Alive
    /\ serve[n].pc = "serving"
    /\ serve[n].server \notin shutdowns
    /\ serve' = [serve EXCEPT ![n].pc = "report"]
    /\ listeners' = listeners \ {n}
    /\ UNCHANGED << spec, server, mux, startNum, eventChan, state, err, fsm, handled,
                    shutdowns, watchdog, closer, done, reloads, status,
                    idleTimeout >>

\* Serve returns ErrServerClosed after Shutdown: nothing is reported.
serveCloses(n) ==
    /\ Alive
    /\ serve[n].pc = "serving"
    /\ serve[n].server \in shutdowns
    /\ serve' = [serve EXCEPT ![n].pc = "done"]
    /\ UNCHANGED << spec, server, mux, startNum, eventChan, state, err, fsm, handled,
                    listeners, shutdowns, watchdog, closer, done, reloads,
                    status,
                    idleTimeout >>

\* r.eventChan <- &eventServeFailed{err: err, startNum: startNum}
serveReports(n) ==
    /\ Alive
    /\ serve[n].pc = "report"
    /\ Room
    /\ eventChan' = Append(eventChan, eventServeFailed(n, errServe))
    /\ serve' = [serve EXCEPT ![n].pc = "done"]
    /\ UNCHANGED << spec, server, mux, startNum, state, err, fsm, handled,
                    listeners, shutdowns, watchdog, closer, done, reloads, status,
                    idleTimeout >>

(* ------------------------------ the watchdog -------------------------- *)

\* One tick of checkFailed: it reads the state.
checkFailedTick ==
    /\ Alive
    /\ watchdog = "tick"
    /\ watchdog' = IF state = stateFailed THEN "send"
                   ELSE IF state = stateClosed THEN "exited"
                   ELSE "tick"
    /\ UNCHANGED << spec, server, mux, startNum, eventChan, state, err, fsm, handled,
                    listeners, shutdowns, serve, closer, done, reloads,
                    status,
                    idleTimeout >>

\* checkFailed with a send that gives up when the channel is full
\* (select with a default case).
checkFailedSendOrDrop ==
    /\ Alive
    /\ watchdog = "send"
    /\ eventChan' = IF Room THEN Append(eventChan, eventCheckFailed) ELSE eventChan
    /\ watchdog' = "tick"
    /\ UNCHANGED << spec, server, mux, startNum, state, err, fsm, handled,
                    listeners, shutdowns, serve, closer, done, reloads, status,
                    idleTimeout >>

\* r.eventChan <- &eventCheckFailed{}
checkFailedSend ==
    /\ Alive
    /\ watchdog = "send"
    /\ Room
    /\ eventChan' = Append(eventChan, eventCheckFailed)
    /\ watchdog' = "tick"
    /\ UNCHANGED << spec, server, mux, startNum, state, err, fsm, handled,
                    listeners, shutdowns, serve, closer, done, reloads, status,
                    idleTimeout >>

(* ------------------------------ the callers --------------------------- *)

\* The supervisor's reload: r.eventChan <- &eventReload{nextSpec: s}. Its first
\* reload carries the configuration it starts with, the later ones any of S.
sendReload(S) ==
    /\ Alive
    /\ reloads < MaxReloads
    /\ Room
    /\ \E s \in (IF reloads = 0 THEN {BaseSpec} ELSE S) :
          eventChan' = Append(eventChan, eventReload(s))
    /\ reloads' = reloads + 1
    /\ UNCHANGED << spec, server, mux, startNum, state, err, fsm, handled,
                    listeners, shutdowns, serve, watchdog, closer, done, status,
                    idleTimeout >>

\* A caller that breaks the contract of the channel: it sends a reload without
\* a next spec, a start event, or a value of no event type.
sendMisuse ==
    /\ Alive
    /\ reloads < MaxReloads
    /\ Room
    /\ \E e \in { eventReload(NilSpec), eventStart, eventUnknown } :
          eventChan' = Append(eventChan, e)
    /\ reloads' = reloads + 1
    /\ UNCHANGED << spec, server, mux, startNum, state, err, fsm, handled,
                    listeners, shutdowns, serve, watchdog, closer, done, status,
                    idleTimeout >>

\* Close() is called: done := make(chan struct{}). The caller parks when the
\* channel is full.
CloseCalled ==
    /\ Alive
    /\ closer.pc = "none"
    /\ closer' = [pc |-> "send", parked |-> ~Room]
    /\ UNCHANGED << spec, server, mux, startNum, eventChan, state, err, fsm, handled,
                    listeners, shutdowns, serve, watchdog, done, reloads,
                    status,
                    idleTimeout >>

\* r.eventChan <- &eventClose{done: done}
CloseSends ==
    /\ Alive
    /\ closer.pc = "send"
    /\ Room
    /\ eventChan' = Append(eventChan, eventClose)
    /\ closer' = [closer EXCEPT !.pc = "wait"]
    /\ UNCHANGED << spec, server, mux, startNum, state, err, fsm, handled,
                    listeners, shutdowns, serve, watchdog, done, reloads, status,
                    idleTimeout >>

\* <-done
CloseReturns ==
    /\ Alive
    /\ closer.pc = "wait"
    /\ done
    /\ closer' = [closer EXCEPT !.pc = "returned"]
    /\ UNCHANGED << spec, server, mux, startNum, eventChan, state, err, fsm, handled,
                    listeners, shutdowns, serve, watchdog, done, reloads,
                    status,
                    idleTimeout >>

\* Status(): State: r.getState()
StatusGetState ==
    /\ Alive
    /\ status.pc = "idle"
    /\ status' = [status EXCEPT !.pc = "reading", !.State = state, !.Error = errNil,
                                !.returned = FALSE]
    /\ UNCHANGED << spec, server, mux, startNum, eventChan, state, err, fsm, handled,
                    listeners, shutdowns, serve, watchdog, closer, done,
                    reloads,
                    idleTimeout >>

\* Status(): Error: r.getError().Error(), and the return
StatusGetError ==
    /\ Alive
    /\ status.pc = "reading"
    /\ status' = [status EXCEPT
                     !.pc = "idle", !.Error = err, !.returned = TRUE,
                     !.sawClosed = @ \/ status.State = stateClosed,
                     !.regressed = @ \/ (status.sawClosed /\ status.State = stateRunning)]
    /\ UNCHANGED << spec, server, mux, startNum, eventChan, state, err, fsm, handled,
                    listeners, shutdowns, serve, watchdog, closer, done,
                    reloads,
                    idleTimeout >>

(* --------------------------- specifications --------------------------- *)

Reload == sendReload(Specs)

\* The supervisor changes nothing but the port.
ReloadPort == sendReload({ BaseSpec, [BaseSpec EXCEPT !.Port = 9090] })

Serve == \E n \in 1..MaxStartNum :
            serveBegin(n) \/ serveFails(n) \/ serveCloses(n) \/ serveReports(n)

Fsm ==
    \/ handleEventCheckFailed
    \/ handleEventServeFailed
    \/ handleEventReload
    \/ handleEventClose
    \/ setError

Next ==
    \/ Fsm
    \/ Serve
    \/ checkFailedTick
    \/ checkFailedSend
    \/ Reload
    \/ CloseCalled
    \/ CloseSends
    \/ CloseReturns

Spec == Init /\ [][Next]_vars

\* The scheduling the Go runtime gives: the loop, the watchdog (its ticker
\* keeps ticking) and the goroutines that are ready keep running, and a
\* sender parked on the channel is served when the loop makes room (parked
\* senders are served in arrival order). Nothing makes a caller call, a bind
\* succeed or a serve loop fail.
Fairness ==
    /\ WF_vars(Fsm)
    /\ WF_vars(checkFailedTick)
    /\ SF_vars(checkFailedSend)
    /\ SF_vars(CloseSends)
    /\ WF_vars(CloseReturns)

\* The runtime under a supervisor that reloads the port only.
PortNext ==
    \/ Fsm
    \/ Serve
    \/ checkFailedTick
    \/ checkFailedSend
    \/ ReloadPort
    \/ CloseCalled
    \/ CloseSends
    \/ CloseReturns

LiveSpec == Init /\ [][PortNext]_vars /\ Fairness

\* The same runtime, with a caller of Status().
StatusNext == PortNext \/ StatusGetState \/ StatusGetError

StatusSpec == Init /\ [][StatusNext]_vars

\* The supervisor changes nothing but the keep-alive timeout: a duration, the
\* empty string, or a number without a unit.
KeepAliveTimeouts == { "60s", "30s", "", "60" }

ReloadKeepAlive ==
    sendReload({ [BaseSpec EXCEPT !.KeepAliveTimeout = t] : t \in KeepAliveTimeouts })

KeepAliveNext ==
    \/ Fsm
    \/ Serve
    \/ checkFailedTick
    \/ checkFailedSend
    \/ ReloadKeepAlive
    \/ CloseCalled
    \/ CloseSends
    \/ CloseReturns

KeepAliveSpec == Init /\ [][KeepAliveNext]_vars

\* The same runtime, with a caller that breaks the contract of the channel.
MisuseNext == PortNext \/ handleEventStart \/ handleUnknown \/ sendMisuse

MisuseSpec == Init /\ [][MisuseNext]_vars

(* ------------------------------ properties ---------------------------- *)

Range(q) == { q[i] : i \in DOMAIN q }

\* The loop's step that receives an event of type t and runs its handler.
Handles(t) == Receives(t) /\ eventChan' = Tail(eventChan)

\* C1: handling a serve-failed event whose startNum is lower than r.startNum
\* changes nothing: state, error, startNum, spec and server stay as they are,
\* no call is made and the loop waits for the next event.
C1_StaleServeFailedIsNoOp ==
    [][ (Handles("eventServeFailed") /\ Head(eventChan).startNum < startNum)
        => /\ UNCHANGED << state, err, startNum, spec, server, mux, listeners,
                           shutdowns, serve >>
           /\ handled'.calls = << >>
           /\ fsm' = Idle ]_vars

\* A report of generation 1 was the last event handled by a runtime that
\* runs generation 2.
C1_Witness ==
    /\ handled.event.type = "eventServeFailed"
    /\ handled.event.startNum = 1
    /\ startNum = 2
    /\ state = stateRunning
    /\ fsm.pc = "idle"

\* The fields of a spec other than the routing rules.
RestartFields == { "Port", "HTTPS", "KeepAlive", "MaxConnections" }
OtherFields == DOMAIN BaseSpec \ {"Rules"}

RulesOnly(a, b) == a.Rules # b.Rules /\ \A f \in OtherFields : a[f] = b[f]

\* C2: a reload whose next spec differs from the current one only in the
\* rules makes one call, reloadRules: no Shutdown and no Listen; startNum,
\* state, error, server and listeners are unchanged, the dispatcher has the
\* new rules and r.spec is the next spec.
C2_RulesOnlyReloadKeepsListener ==
    [][ ( /\ Handles("eventReload")
          /\ spec # NilSpec
          /\ Head(eventChan).nextSpec # NilSpec
          /\ RulesOnly(spec, Head(eventChan).nextSpec) )
        => /\ handled'.calls = << "reloadRules" >>
           /\ UNCHANGED << startNum, state, err, server, listeners, shutdowns, serve >>
           /\ mux' = Head(eventChan).nextSpec.Rules
           /\ spec' = Head(eventChan).nextSpec
           /\ fsm' = Idle ]_vars

\* A running runtime has just swapped rules R1 for R2.
C2_Witness ==
    /\ handled.event.type = "eventReload"
    /\ handled.calls = << "reloadRules" >>
    /\ state = stateRunning
    /\ listeners = {1}
    /\ mux = "R2"
    /\ spec = [BaseSpec EXCEPT !.Rules = "R2"]

\* The next spec differs from the current one in a field that is baked into
\* the listener or the server.
NeedsRestart(a, b) == \E f \in RestartFields : a[f] # b[f]

RestartReload ==
    /\ Handles("eventReload")
    /\ spec # NilSpec
    /\ Head(eventChan).nextSpec # NilSpec
    /\ NeedsRestart(spec, Head(eventChan).nextSpec)

\* C3, as claimed: such a reload always makes one Shutdown and then one
\* Listen, and startNum is one more than before.
C3_RestartReloadAlwaysStopsAndStarts ==
    [][ RestartReload
        => /\ handled'.calls = << "reloadRules", "Shutdown", "Listen" >>
           /\ startNum' = startNum + 1 ]_vars

\* C3, amended: such a reload calls closeServer, which shuts the server down
\* when there is one, and then makes one start attempt; startNum is one more
\* than before when the bind succeeds and unchanged when it fails.
C3_RestartReloadClosesThenStartsOnce ==
    [][ RestartReload
        => /\ handled'.calls =
                 << "reloadRules" >>
                 \o (IF server # NoServer THEN << "Shutdown" >> ELSE << >>)
                 \o << "Listen" >>
           /\ server # NoServer => server \in shutdowns'
           /\ spec' = Head(eventChan).nextSpec
           /\ \/ state' = stateRunning /\ startNum' = startNum + 1 /\ server' = startNum'
              \/ state' = stateFailed /\ startNum' = startNum /\ server' = server ]_vars

\* A restarting reload has just stopped generation 1 and started generation 2.
C3_Witness ==
    /\ handled.event.type = "eventReload"
    /\ handled.calls = << "reloadRules", "Shutdown", "Listen" >>
    /\ startNum = 2
    /\ 1 \in shutdowns
    /\ state = stateRunning

\* The loop has just made a start attempt: gnet.Listen was called by the
\* handler that is now about to store the error.
StartAttempted == fsm.pc = "setError" /\ "Listen" \in Range(handled.calls)

\* The loop has returned from fsm(): the close event was handled.
LoopExited == fsm.pc = "exited"

\* C4: whenever the runtime is failed and the loop is waiting for its next
\* event, a new start attempt is eventually made, unless the loop is closed
\* first; being true of every such state, attempts recur for as long as the
\* runtime stays failed.
C4_FailedIsRetried ==
    (state = stateFailed /\ fsm.pc = "idle") ~> (StartAttempted \/ LoopExited)

\* A retry of the watchdog has just failed to bind again.
C4_Witness ==
    /\ handled.event.type = "eventCheckFailed"
    /\ StartAttempted
    /\ state = stateFailed
    /\ err = errBind

\* C5, as claimed: once Close() has returned the state is closed (and the
\* watchdog, which exits only when it reads closed, can terminate).
C5_CloseLeavesClosed ==
    closer.pc = "returned" => state = stateClosed

\* C6: once the loop has handled the close event (it has closed e.done) it
\* has returned from fsm() and handles nothing more: no
\* Listen, no Shutdown, no new server, generation or serve goroutine, and
\* state, error, spec and rules never change again, whatever is in the channel.
C6_NothingAfterClose ==
    [][ done
        => /\ UNCHANGED << fsm, state, err, startNum, server, spec, mux, handled,
                           shutdowns, done >>
           /\ listeners' \subseteq listeners
           /\ \A n \in 1..MaxStartNum : serve[n].pc = "none" => serve'[n].pc = "none" ]_vars

\* The loop has exited in the failed state with a check-failed and a reload
\* event still in the channel.
C6_Witness ==
    /\ done
    /\ LoopExited
    /\ state = stateFailed
    /\ \E i \in DOMAIN eventChan : eventChan[i].type = "eventCheckFailed"
    /\ \E i \in DOMAIN eventChan : eventChan[i].type = "eventReload"

\* C7, as claimed: Status() never returns the state running with a non-empty
\* error, and never returns running after it has returned closed.
C7_StatusNeverTorn ==
    status.returned =>
        /\ ~(status.State = stateRunning /\ status.Error # errNil)
        /\ ~status.regressed

\* The changes of state the data model lists.
ListedEdges ==
    { << stateNil, stateRunning >>, << stateRunning, stateFailed >>,
      << stateFailed, stateRunning >>, << stateFailed, stateClosed >>,
      << stateRunning, stateClosed >> }

\* C8, as claimed: the state changes only along the listed edges.
C8_OnlyListedEdges ==
    [][ state' # state => << state, state' >> \in ListedEdges ]_vars

\* C8, amended: the state changes only along the listed edges and along
\* uninitialized -> failed, which a first start takes when its bind fails;
\* closed is never left.
C8_OnlyListedEdgesOrFirstBindFailure ==
    [][ state' # state =>
            << state, state' >> \in ListedEdges \cup { << stateNil, stateFailed >> } ]_vars

\* The first start failed to bind: failed, and nothing ever ran.
C8_Witness ==
    /\ state = stateFailed
    /\ startNum = 0
    /\ handled.event.type = "eventReload"
    /\ err = errBind

\* C9, as claimed: at most one listener is open, and every server but the
\* last one started has been asked to close.
C9_OneInstanceAtATime ==
    /\ Cardinality(listeners) <= 1
    /\ \A n \in 1..(startNum - 1) : n \in shutdowns

\* C10: a Close() that was called returns, also when its send found the
\* channel full, and it has returned only when the loop has handled the close
\* event and has called Shutdown on the server, if there is one.
C10_CloseReturns ==
    /\ (closer.pc = "send") ~> (closer.pc = "returned")
    /\ [](closer.pc = "returned" =>
            /\ LoopExited
            /\ done
            /\ handled.event.type = "eventClose"
            /\ server # NoServer => server \in shutdowns)

\* Close() found the channel full, and has returned after the shutdown of
\* the running server.
C10_Witness ==
    /\ closer.pc = "returned"
    /\ closer.parked
    /\ handled.calls = << "Shutdown" >>
    /\ server # NoServer

\* C11: no event makes the loop panic: not an event of an unknown type, not a
\* reload without a next spec in any state, and no event handled after them;
\* r.spec is not nil where startServer or closeServer's warning reads it.
C11_LoopNeverPanics ==
    fsm.pc = "panicked" =>
        handled.event.type \notin
            { "unknown", "eventReload", "eventCheckFailed", "eventClose" }

\* A goroutine that is at its send on r.eventChan.
SenderWaiting ==
    \/ watchdog = "send"
    \/ closer.pc = "send"
    \/ \E n \in 1..MaxStartNum : serve[n].pc = "report"

\* C12: after the loop has returned on the close event, a goroutine that sends
\* a late event is never blocked at its send, however many late events were
\* sent before it, and the loop has not panicked.
C12_LateSendNeverBlocks ==
    LoopExited => (Alive /\ (SenderWaiting => Room))

\* The loop's step whose handler calls startServer.
StartCalled ==
    \/ Handles("eventCheckFailed") /\ state = stateFailed
    \/ /\ Handles("eventReload")
       /\ Head(eventChan).nextSpec # NilSpec
       /\ \/ spec = NilSpec
          \/ \E f \in OtherFields : spec[f] # Head(eventChan).nextSpec[f]

\* The bind of the step's start succeeded: a listener was opened.
BindSucceeded == listeners' \ listeners # {}

\* C13: a start whose spec has an empty keep-alive timeout, or one that does
\* not parse, goes on to the bind; when the bind succeeds the new server has
\* the default idle timeout of 60 seconds, the state is running and the error
\* that is stored is the empty one. A timeout that parses is the one used.
C13_BadKeepAliveTimeoutStartsWithDefault ==
    [][ (StartCalled /\ spec' # NilSpec) =>
           /\ "Listen" \in Range(handled'.calls)
           /\ BindSucceeded =>
                 /\ state' = stateRunning
                 /\ fsm' = [pc |-> "setError", err |-> errNil, go |-> TRUE]
                 /\ spec'.KeepAliveTimeout \in { "", "60" } =>
                       idleTimeout'[startNum'] = 60
                 /\ spec'.KeepAliveTimeout = "30s" => idleTimeout'[startNum'] = 30 ]_vars

\* A server started from a spec whose keep-alive timeout has no unit is
\* running with the default idle timeout and no error.
C13_Witness ==
    /\ spec # NilSpec
    /\ spec.KeepAliveTimeout = "60"
    /\ "Listen" \in Range(handled.calls)
    /\ state = stateRunning
    /\ err = errNil
    /\ fsm.pc = "idle"
    /\ server = startNum
    /\ idleTimeout[startNum] = defaultKeepAliveTimeout

\* The step puts one event at the end of the channel.
Enqueues(e) == eventChan' = Append(eventChan, e)

\* C14: the channel never holds more than 10 events. It changes in two ways
\* only: a producer that is not the loop appends one event when there is
\* room, and the loop, its previous handler finished, takes the oldest event
\* and handles that one. A producer at its send stays there until its event
\* is in the channel: nothing is dropped. The loop leaves only on the close
\* event, so every event sent before it was handled, once, in arrival order.
C14_EventsHandledOnceInOrder ==
    /\ [](Len(eventChan) <= 10)
    /\ [][ /\ eventChan' # eventChan =>
                \/ /\ Len(eventChan) < 10
                   /\ \E e \in Range(eventChan') : Enqueues(e)
                   /\ UNCHANGED << fsm, handled, spec, server, mux, startNum, state,
                                   err, shutdowns, done >>
                \/ /\ eventChan # << >>
                   /\ eventChan' = Tail(eventChan)
                   /\ fsm.pc = "idle"
                   /\ handled'.event = Head(eventChan)
           /\ (watchdog = "send" /\ watchdog' # "send") => Enqueues(eventCheckFailed)
           /\ (closer.pc = "send" /\ closer'.pc # "send") => Enqueues(eventClose)
           /\ \A n \in 1..MaxStartNum :
                 (serve[n].pc = "report" /\ serve'[n].pc # "report")
                     => Enqueues(eventServeFailed(n, errServe))
           /\ (fsm.pc # "exited" /\ fsm'.pc = "exited") => Handles("eventClose") ]_vars

\* The channel is full, the watchdog is blocked at its send, and the loop is
\* about to take the oldest event.
C14_Witness ==
    /\ Len(eventChan) = EventChanCap
    /\ watchdog = "send"
    /\ fsm.pc = "idle"
    /\ handled.event.type # "none"
    /\ closer.pc = "none"

\* C15: handling a serve-failed event of a generation whose server the loop
\* has shut down changes neither the state nor the error, whether the bind
\* of the restart that followed the shutdown succeeded or failed.
C15_ReportOfShutDownServerIsIgnored ==
    [][ (Handles("eventServeFailed") /\ Head(eventChan).startNum \in shutdowns)
        => (state' = state /\ fsm' = Idle) ]_vars

\* The servers made so far.
ServersMade == { n \in 1..MaxStartNum : idleTimeout[n] # 0 }

\* C16: r.startNum never decreases; it grows by exactly 1 in a step whose bind
\* succeeded and in no other step, so it is the number of servers made so
\* far; every serve-failed event in the channel carries a startNum between 1
\* and r.startNum.
C16_StartNumCountsSuccessfulBinds ==
    /\ [](/\ startNum = Cardinality(ServersMade)
          /\ \A i \in DOMAIN eventChan :
                eventChan[i].type = "eventServeFailed" =>
                    (1 <= eventChan[i].startNum /\ eventChan[i].startNum <= startNum))
    /\ [][ /\ startNum' >= startNum
           /\ BindSucceeded <=> startNum' = startNum + 1
           /\ startNum' # startNum => (StartCalled /\ startNum' = startNum + 1) ]_vars

\* Two servers were made, and the report of the second is in the channel.
C16_Witness ==
    /\ startNum = 2
    /\ ServersMade = {1, 2}
    /\ \E i \in DOMAIN eventChan :
          eventChan[i].type = "eventServeFailed" /\ eventChan[i].startNum = 2

\* C17: a start whose bind fails, be it the first start, a restart or a
\* retry, stores stateFailed and then the bind error, launches no serve
\* goroutine and opens no listener, and leaves r.startNum and r.server as
\* they were.
C17_BindFailureIsFailedWithItsError ==
    [][ /\ (StartCalled /\ ~BindSucceeded) =>
              /\ "Listen" \in Range(handled'.calls)
              /\ state' = stateFailed
              /\ fsm' = [pc |-> "setError", err |-> errBind, go |-> FALSE]
              /\ UNCHANGED << startNum, server, serve, idleTimeout >>
        /\ (fsm.pc = "setError" /\ fsm' # fsm) =>
              /\ err' = fsm.err
              /\ ~fsm.go => UNCHANGED serve ]_vars

\* The bind of a restart or of a retry has failed: the runtime is failed with
\* the bind error, and r.server is still the server of the first start.
C17_Witness ==
    /\ state = stateFailed
    /\ err = errBind
    /\ fsm.pc = "idle"
    /\ "Listen" \in Range(handled.calls)
    /\ startNum = 1
    /\ server = 1
    /\ serve[2].pc = "none"

\* C18: a check-failed event is acted on only when the state is failed as it
\* is handled: otherwise its handler changes nothing and makes no call; and
\* the start a check-failed event makes never leaves a second listener open
\* next to the one it opened.
C18_CheckFailedRetriesOnlyWhenFailed ==
    [][ Handles("eventCheckFailed") =>
           /\ state # stateFailed =>
                 /\ UNCHANGED << state, err, startNum, spec, server, mux, listeners,
                                 shutdowns, serve, idleTimeout >>
                 /\ handled'.calls = << >>
                 /\ fsm' = Idle
           /\ Cardinality(listeners') <= 1 ]_vars

\* C19: the goroutine launched by the n-th successful start calls Serve on the
\* server that start made, with the listener that start opened, however the
\* loop's later restarts are interleaved with it; and once a restart has shut
\* server n down, listener n does not stay open when goroutine n runs.
C19_ServeUsesItsOwnServer ==
    \A n \in 1..MaxStartNum :
        /\ serve[n].pc \in { "serving", "report", "done" } => serve[n].server = n
        /\ (serve[n].pc = "serving" /\ n \in shutdowns) => n \notin listeners

\* C20: whenever the loop is between two handlers, a running runtime has the
\* empty error, a failed runtime has an error that is not empty, and a
\* runtime that was never started has the empty error and startNum 0.
C20_StateAndErrorAgree ==
    fsm.pc \in { "idle", "exited" } =>
        /\ state = stateRunning => err = errNil
        /\ state = stateFailed => err # errNil
        /\ state = stateNil => (err = errNil /\ startNum = 0)

\* The loop is idle after a serve failure: failed, with the serve error.
C20_Witness ==
    /\ fsm.pc = "idle"
    /\ state = stateFailed
    /\ err = errServe
    /\ handled.event.type = "eventServeFailed"

====
